---- MODULE Spec2Model ----
(***************************************************************************)
(* Model of convert_to_webp.py: a sequential batch converter of the images *)
(* of one directory to WebP.  File names and paths are sequences of        *)
(* one-character strings, so that lower(), endswith(), os.path.splitext,   *)
(* basename, dirname and join are computed as Python computes them.        *)
(***************************************************************************)
EXTENDS Integers, Sequences, FiniteSets, TLC

VARIABLES
    pc,                   \* position of main: "main", "batch", "loop", "exit"
    exit_status,          \* process exit status; -1 while the process runs
    dir_kind,             \* what args.directory names: "missing", "notdir", "dir"
    remove_original,      \* args.remove_original
    lossless,             \* args.lossless
    fs,                   \* the files of the directory: path -> file record
    fs0,                  \* the directory as it was when the process started
    image_files,          \* batch_convert's list of paths
    idx,                  \* position of the for loop in image_files (1-based)
    success_count,
    total_original_size,
    total_new_size,
    out                   \* what was printed, in order

vars == <<pc, exit_status, dir_kind, remove_original, lossless, fs, fs0,
          image_files, idx, success_count, total_original_size,
          total_new_size, out>>

(***************************************************************************)
(* Bounds                                                                  *)
(***************************************************************************)
MaxFiles == 2

(***************************************************************************)
(* Strings                                                                 *)
(***************************************************************************)
UpperChars == <<"A","B","C","D","E","F","G","H","I","J","K","L","M",
                "N","O","P","Q","R","S","T","U","V","W","X","Y","Z">>
LowerChars == <<"a","b","c","d","e","f","g","h","i","j","k","l","m",
                "n","o","p","q","r","s","t","u","v","w","x","y","z">>

\* str.lower() on one character
LowerChar(c) ==
    IF \E i \in 1..Len(UpperChars) : UpperChars[i] = c
    THEN LowerChars[CHOOSE i \in 1..Len(UpperChars) : UpperChars[i] = c]
    ELSE c

\* str.lower()
lower(s) == [i \in 1..Len(s) |-> LowerChar(s[i])]

\* str.endswith(suffix)
endswith(s, suffix) ==
    /\ Len(s) >= Len(suffix)
    /\ SubSeq(s, Len(s) - Len(suffix) + 1, Len(s)) = suffix

\* str.endswith(tuple of suffixes)
endswith_any(s, suffixes) == \E suffix \in suffixes : endswith(s, suffix)

\* str.rfind(c), 1-based; 0 when c does not occur
rfind(s, c) ==
    IF \E i \in 1..Len(s) : s[i] = c
    THEN CHOOSE i \in 1..Len(s) : s[i] = c /\ \A j \in (i+1)..Len(s) : s[j] # c
    ELSE 0

\* os.path.basename
basename(p) == SubSeq(p, rfind(p, "/") + 1, Len(p))

\* str.rstrip("/")
RECURSIVE rstrip_sep(_)
rstrip_sep(s) ==
    IF Len(s) > 0 /\ s[Len(s)] = "/" THEN rstrip_sep(SubSeq(s, 1, Len(s) - 1)) ELSE s

\* os.path.dirname
dirname(p) ==
    LET head == SubSeq(p, 1, rfind(p, "/"))
    IN  IF head # <<>> /\ \E i \in 1..Len(head) : head[i] # "/"
        THEN rstrip_sep(head)
        ELSE head

\* os.path.join of two components
join(a, b) ==
    IF Len(b) > 0 /\ b[1] = "/" THEN b
    ELSE IF a = <<>> \/ a[Len(a)] = "/" THEN a \o b
    ELSE a \o <<"/">> \o b

\* os.path.splitext: <<root, ext>>.  The extension starts at the last dot
\* of the last path component, unless that component has only dots before it.
splitext(p) ==
    LET sepIndex == rfind(p, "/")
        dotIndex == rfind(p, ".")
    IN  IF dotIndex > sepIndex
           /\ \E k \in (sepIndex + 1)..(dotIndex - 1) : p[k] # "."
        THEN <<SubSeq(p, 1, dotIndex - 1), SubSeq(p, dotIndex, Len(p))>>
        ELSE <<p, <<>> >>

webp_ext == <<".","w","e","b","p">>

\* Mutant: the list also names .webp
supported_formats_with_webp ==
    { <<".","j","p","g">>, <<".","j","p","e","g">>, <<".","p","n","g">>,
      <<".","b","m","p">>, <<".","g","i","f">>, <<".","t","i","f","f">>,
      <<".","t","i","f">>, <<".","w","e","b","p">> }

\* supported_formats of batch_convert
supported_formats ==
    { <<".","j","p","g">>, <<".","j","p","e","g">>, <<".","p","n","g">>,
      <<".","b","m","p">>, <<".","g","i","f">>, <<".","t","i","f","f">>,
      <<".","t","i","f">> }

(***************************************************************************)
(* The file system                                                         *)
(***************************************************************************)
\* args.directory: the default of -d
directory == <<".">>

\* quality: the default of -q
DefaultQuality == 85

\* A directory entry.  kind: "file", "dir" or "dangling" (a symbolic link to
\* nothing).  fmt: what the bytes are.  mode: the colour mode Image.open
\* reports.  enc: the size of the WebP encoding of the pixels.  px: whose
\* pixels the file holds.  opts: how a written file was encoded.
File(kind, size, fmt, mode, enc, px, opts) ==
    [kind |-> kind, size |-> size, fmt |-> fmt, mode |-> mode, enc |-> enc,
     px |-> px, opts |-> opts]

\* os.path.exists: false for a dangling link
exists(fsx, p) == p \in DOMAIN fsx /\ fsx[p].kind # "dangling"

\* os.path.getsize raises OSError when the path cannot be stat'ed
getsize_raises(fsx, p) == ~exists(fsx, p)

\* os.path.getsize
getsize(fsx, p) == fsx[p].size

\* os.listdir(directory): the names of the entries, in some order
listdir_names(fsx) == { basename(p) : p \in {q \in DOMAIN fsx : dirname(q) = directory} }

\* f with the entry at path p set to rec
WriteFile(fsx, p, rec) ==
    [q \in DOMAIN fsx \cup {p} |-> IF q = p THEN rec ELSE fsx[q]]

\* os.remove
RemoveFile(fsx, p) == [q \in DOMAIN fsx \ {p} |-> fsx[q]]

(***************************************************************************)
(* convert_to_webp                                                         *)
(***************************************************************************)
\* Lines 32-36: the colour mode the image is saved in
NormalizeMode(mode) ==
    IF mode \in {"RGBA", "LA"} THEN "RGBA"
    ELSE IF mode \notin {"RGB", "RGBA"} THEN "RGB"
    ELSE mode

\* Mutant: the extension is appended to the name instead of replacing its own
default_output_path_appended(input_path) == input_path \o webp_ext

\* Lines 28-29: the output path when output_path is None
default_output_path(input_path) ==
    LET base_name == splitext(basename(input_path))[1]
    IN  join(dirname(input_path), base_name \o webp_ext)

\* Lines 39-42: the arguments of img.save
save_options(quality, is_lossless) ==
    IF is_lossless THEN <<"lossless">> ELSE <<"quality", quality, "method", 6>>

\* Lines 47 and 124: (1 - new/original) * 100 as printed with one decimal,
\* in tenths of a percent
compression_ratio(new_size, original_size) ==
    (2000 * (original_size - new_size) + original_size) \div (2 * original_size)

\* Image.open succeeds on a regular file that holds a decodable image
can_open(fsx, p) ==
    /\ p \in DOMAIN fsx
    /\ fsx[p].kind = "file"
    /\ fsx[p].fmt \in {"image", "webp"}

\* The faults img.save can meet: "none", "nowrite" (the file cannot be
\* created), "partial" (the write stops midway and leaves a truncated file)
SaveFaults == {"none", "nowrite", "partial"}

\* convert_to_webp(input_path, quality=quality, lossless=lossless):
\* [fs: the file system afterwards, ok: the return value, out: what it printed]
convert_to_webp(fsx, input_path, quality, is_lossless, fault) ==
    LET failed(fsy) == [fs |-> fsy, ok |-> FALSE, out |-> << <<"fail", input_path>> >>]
        output_path == default_output_path(input_path)
        img == fsx[input_path]
        written == File("file", img.enc, "webp", NormalizeMode(img.mode), img.enc,
                        img.px, save_options(quality, is_lossless))
        truncated == File("file", 0, "partial", "", 0, img.px, <<>>)
    IN  IF ~can_open(fsx, input_path) THEN failed(fsx)
        ELSE IF output_path \in DOMAIN fsx /\ fsx[output_path].kind = "dir" THEN failed(fsx)
        ELSE IF fault = "nowrite" THEN failed(fsx)
        ELSE IF fault = "partial" THEN failed(WriteFile(fsx, output_path, truncated))
        ELSE LET fsy == WriteFile(fsx, output_path, written)
                 original_size == getsize(fsy, input_path)
                 new_size == getsize(fsy, output_path)
             IN  IF original_size = 0 THEN failed(fsy)   \* ZeroDivisionError, line 47
                 ELSE [fs |-> fsy, ok |-> TRUE,
                       out |-> << <<"ok", input_path, output_path, original_size,
                                    new_size, compression_ratio(new_size, original_size)>> >>]

(***************************************************************************)
(* batch_convert and main                                                  *)
(***************************************************************************)
\* Line 96: the loop's test for a file that is already WebP
is_webp(image_file) == endswith(lower(image_file), webp_ext)

\* Line 77: the filter of the directory scan
is_supported(file) == endswith_any(lower(file), supported_formats)

\* Lines 75-78: the listing (the entries' names in the order os.listdir gave
\* them) filtered and joined to the directory
RECURSIVE scan(_)
scan(listing) ==
    IF listing = <<>> THEN <<>>
    ELSE (IF is_supported(Head(listing)) THEN <<join(directory, Head(listing))>> ELSE <<>>)
         \o scan(Tail(listing))

\* The orders os.listdir may return the names in
Listings(names) ==
    { l \in [1..Cardinality(names) -> names] : \A i, j \in DOMAIN l : l[i] = l[j] => i = j }

\* Mutant: the extension is appended to the path instead of replacing its own
webp_file_of_appended(image_file) == image_file \o webp_ext

\* Line 107: the path batch_convert expects the output at
webp_file_of(image_file) == splitext(image_file)[1] \o webp_ext

\* Mutant: keep_original is not consulted
remove_wanted_always(keep_original) == TRUE

\* Line 112: whether the source is removed after a conversion
remove_wanted(keep_original) == ~keep_original

\* Mutant: os.remove outside any try block
remove_source_unguarded(fsx, image_file, rm_ok) ==
    IF rm_ok
    THEN [fs |-> RemoveFile(fsx, image_file), raised |-> FALSE,
          out |-> << <<"deleted", image_file>> >>]
    ELSE [fs |-> fsx, raised |-> TRUE, out |-> <<>>]

\* Lines 113-117: os.remove in its try block.  rm_ok: whether the operating
\* system lets the file go.  raised: whether an exception leaves the block.
remove_source(fsx, image_file, rm_ok) ==
    IF rm_ok
    THEN [fs |-> RemoveFile(fsx, image_file), raised |-> FALSE,
          out |-> << <<"deleted", image_file>> >>]
    ELSE [fs |-> fsx, raised |-> FALSE, out |-> << <<"delete_failed", image_file>> >>]

\* Lines 100-117: the body of the loop for a file that is not skipped.
\* raised: "" or the call whose exception nothing catches.
loop_body(fsx, image_file, keep_original, quality, is_lossless, fault, rm_ok) ==
    IF getsize_raises(fsx, image_file)
    THEN [fs |-> fsx, raised |-> "getsize", d_success |-> 0, d_original |-> 0,
          d_new |-> 0, out |-> <<>>]
    ELSE
    LET original_size == getsize(fsx, image_file)
        conv == convert_to_webp(fsx, image_file, quality, is_lossless, fault)
        webp_file == webp_file_of(image_file)
        measured == conv.ok /\ exists(conv.fs, webp_file)
        rm == IF measured /\ remove_wanted(keep_original)
              THEN remove_source(conv.fs, image_file, rm_ok)
              ELSE [fs |-> conv.fs, raised |-> FALSE, out |-> <<>>]
    IN  [fs |-> rm.fs,
         raised |-> IF rm.raised THEN "remove" ELSE "",
         d_success |-> IF conv.ok THEN 1 ELSE 0,
         d_original |-> original_size,
         d_new |-> IF measured THEN getsize(conv.fs, webp_file) ELSE 0,
         out |-> conv.out \o rm.out]

\* An exception nothing catches: the interpreter prints a traceback and the
\* process ends with status 1
Uncaught(printed, call) ==
    /\ pc' = "exit"
    /\ exit_status' = 1
    /\ out' = out \o printed \o << <<"traceback", call>> >>

(***************************************************************************)
(* Initial states                                                          *)
(***************************************************************************)
\* Names of image files, two of them with one base name
SourceNames == { <<"x",".","p","n","g">>, <<"x",".","T","I","F">> }

\* Names of files that are no source images
OtherNames ==
    { <<"x",".","w","e","b","p">>, <<"o",".","W","E","B","P">>,
      <<"b",".","t","x","t">> }

Names == SourceNames \cup OtherNames

\* Colour modes Image.open reports, with a size of the file and of its encoding
ImageSamples ==
    { <<"RGB", 2, 1>>, <<"RGBA", 2, 2>>, <<"L", 1, 2>>, <<"LA", 1, 1>>,
      <<"P", 2, 3>>, <<"PA", 2, 1>>, <<"CMYK", 3, 1>>, <<"1", 1, 1>> }

\* What an entry named like a source image can be
SourceFiles(p) ==
    { File("file", s[2], "image", s[1], s[3], p, <<>>) : s \in ImageSamples }
    \cup { File("file", 0, "junk", "", 0, p, <<>>),       \* an empty file
           File("file", 1, "junk", "", 0, p, <<>>),       \* a corrupt image
           File("dir", 1, "", "", 0, p, <<>>),           \* a directory
           File("dangling", 0, "", "", 0, p, <<>>) }     \* a dangling link

\* What the other entries are
OtherFiles(p) ==
    IF basename(p) = <<"b",".","t","x","t">>
    THEN { File("file", 1, "junk", "", 0, p, <<>>) }                  \* a text file
    ELSE { File("file", 1, "webp", "RGB", 1, p, <<"old">>) }         \* an older WebP file

FilesAt(p) == IF basename(p) \in SourceNames THEN SourceFiles(p) ELSE OtherFiles(p)

\* The directories holding the names of S
RECURSIVE DirectoriesOf(_)
DirectoriesOf(S) ==
    IF S = {} THEN { << >> }
    ELSE LET n == CHOOSE m \in S : TRUE
         IN  { WriteFile(d, join(directory, n), r) :
                 d \in DirectoriesOf(S \ {n}), r \in FilesAt(join(directory, n)) }

Directories ==
    UNION { DirectoriesOf(S) : S \in { T \in SUBSET Names : Cardinality(T) <= MaxFiles } }

Init ==
    /\ pc = "main"
    /\ exit_status = -1
    /\ dir_kind \in {"missing", "notdir", "dir"}
    /\ remove_original \in BOOLEAN
    /\ lossless \in BOOLEAN
    /\ fs \in Directories
    /\ dir_kind # "dir" => fs = << >>
    /\ fs0 = fs
    /\ image_files = <<>>
    /\ idx = 1
    /\ success_count = 0
    /\ total_original_size = 0
    /\ total_new_size = 0
    /\ out = <<>>

(***************************************************************************)
(* Actions                                                                 *)
(***************************************************************************)
\* Lines 139-141: the directory does not exist
MainMissing ==
    /\ pc = "main"
    /\ dir_kind = "missing"
    /\ pc' = "exit"
    /\ exit_status' = 1
    /\ out' = Append(out, <<"no_dir", directory>>)
    /\ UNCHANGED <<dir_kind, remove_original, lossless, fs, fs0, image_files, idx,
                   success_count, total_original_size, total_new_size>>

\* Lines 139-151: the path exists; main prints the banner and calls batch_convert
MainStart ==
    /\ pc = "main"
    /\ dir_kind # "missing"
    /\ pc' = "batch"
    /\ out' = Append(out, <<"banner">>)
    /\ UNCHANGED <<exit_status, dir_kind, remove_original, lossless, fs, fs0,
                   image_files, idx, success_count, total_original_size,
                   total_new_size>>

\* Line 76: os.listdir raises NotADirectoryError on a path that is no directory
ScanRaises ==
    /\ pc = "batch"
    /\ dir_kind = "notdir"
    /\ Uncaught(<<>>, "listdir")
    /\ UNCHANGED <<dir_kind, remove_original, lossless, fs, fs0, image_files, idx,
                   success_count, total_original_size, total_new_size>>

\* Lines 75-83: the scan finds nothing; batch_convert returns and main ends
ScanEmpty ==
    /\ pc = "batch"
    /\ dir_kind = "dir"
    /\ \E listing \in Listings(listdir_names(fs)) : scan(listing) = <<>>
    /\ pc' = "exit"
    /\ exit_status' = 0
    /\ out' = Append(out, <<"none_found">>)
    /\ UNCHANGED <<dir_kind, remove_original, lossless, fs, fs0, image_files, idx,
                   success_count, total_original_size, total_new_size>>

\* Lines 75-92: the scan finds files; the header is printed, the counters set
ScanFound ==
    /\ pc = "batch"
    /\ dir_kind = "dir"
    /\ \E listing \in Listings(listdir_names(fs)) :
          /\ scan(listing) # <<>>
          /\ image_files' = scan(listing)
    /\ pc' = "loop"
    /\ idx' = 1
    /\ success_count' = 0
    /\ total_original_size' = 0
    /\ total_new_size' = 0
    /\ out' = Append(out, <<"found", Len(image_files'), lossless, ~remove_original>>)
    /\ UNCHANGED <<exit_status, dir_kind, remove_original, lossless, fs, fs0>>

\* Lines 94-117: one turn of the loop.  A file that is already WebP is
\* skipped; any other is measured, converted and, if asked, removed.  An
\* exception that leaves the body is caught by nothing.
Iterate ==
    /\ pc = "loop"
    /\ idx <= Len(image_files)
    /\ IF is_webp(image_files[idx])
       THEN /\ out' = Append(out, <<"skip", image_files[idx]>>)
            /\ idx' = idx + 1
            /\ UNCHANGED <<pc, exit_status, fs, success_count, total_original_size,
                           total_new_size>>
       ELSE \E fault \in SaveFaults, rm_ok \in BOOLEAN :
              LET r == loop_body(fs, image_files[idx], ~remove_original,
                                 DefaultQuality, lossless, fault, rm_ok)
              IN  /\ fs' = r.fs
                  /\ IF r.raised = ""
                     THEN /\ success_count' = success_count + r.d_success
                          /\ total_original_size' = total_original_size + r.d_original
                          /\ total_new_size' = total_new_size + r.d_new
                          /\ out' = out \o r.out
                          /\ idx' = idx + 1
                          /\ UNCHANGED <<pc, exit_status>>
                     ELSE /\ Uncaught(r.out, r.raised)
                          /\ UNCHANGED <<idx, success_count, total_original_size,
                                         total_new_size>>
    /\ UNCHANGED <<dir_kind, remove_original, lossless, fs0, image_files>>

\* Lines 119-127: the summary; batch_convert returns and main ends
Summary ==
    /\ pc = "loop"
    /\ idx > Len(image_files)
    /\ pc' = "exit"
    /\ exit_status' = 0
    /\ out' = out \o << <<"summary", success_count, Len(image_files)>> >>
                  \o (IF total_original_size > 0
                      THEN << <<"totals", total_original_size, total_new_size,
                                compression_ratio(total_new_size, total_original_size)>> >>
                      ELSE <<>>)
    /\ UNCHANGED <<dir_kind, remove_original, lossless, fs, fs0, image_files, idx,
                   success_count, total_original_size, total_new_size>>

Next ==
    \/ MainMissing
    \/ MainStart
    \/ ScanRaises
    \/ ScanEmpty
    \/ ScanFound
    \/ Iterate
    \/ Summary

Spec == Init /\ [][Next]_vars

(***************************************************************************)
(* Vocabulary of the properties                                            *)
(***************************************************************************)
\* The extensions of the source formats, lower case, without the dot
SourceExtensions ==
    { <<"j","p","g">>, <<"j","p","e","g">>, <<"p","n","g">>, <<"b","m","p">>,
      <<"g","i","f">>, <<"t","i","f","f">>, <<"t","i","f">> }

\* The text of a name after its last dot, lower case
ExtensionOf(p) == lower(SubSeq(p, rfind(p, ".") + 1, Len(p)))

\* The entries of the directory that are eligible sources
Sources == { p \in DOMAIN fs0 : ExtensionOf(basename(p)) \in SourceExtensions }

\* The entries of the directory named *.webp in any letter case
WebpEntries == { p \in DOMAIN fs0 : ExtensionOf(basename(p)) = <<"w","e","b","p">> }

\* <basename>.webp beside the source s
BesideWebp(s) ==
    LET n == basename(s)
    IN  join(directory, SubSeq(n, 1, rfind(n, ".") - 1) \o <<".","w","e","b","p">>)

Printed(e) == \E i \in DOMAIN out : out[i] = e

\* The positions of out where convert_to_webp reported on p
Reports(p) ==
    { i \in DOMAIN out : out[i][1] \in {"ok", "fail"} /\ out[i][2] = p }

\* How many times p was passed to convert_to_webp
Attempts(p) == Cardinality(Reports(p))

Succeeded(p) == \E i \in DOMAIN out : out[i][1] = "ok" /\ out[i][2] = p

Failed(p) == Printed(<<"fail", p>>)

Removed(p) == p \in DOMAIN fs0 /\ p \notin DOMAIN fs

SummaryPrinted == \E i \in DOMAIN out : out[i][1] = "summary"

TotalsPrinted == \E i \in DOMAIN out : out[i][1] = "totals"

RECURSIVE SumOver(_, _)
\* The sum of the field named by what ("size" or "enc") of fs0 over the paths of S
SumOver(S, what) ==
    IF S = {} THEN 0
    ELSE LET p == CHOOSE q \in S : TRUE
         IN  (IF what = "size" THEN fs0[p].size ELSE fs0[p].enc) + SumOver(S \ {p}, what)

\* The colour modes that carry an alpha channel
HasAlpha(mode) == mode \in {"RGBA", "LA", "PA", "La", "RGBa"}

\* A file that a conversion of this run wrote completely
WrittenByRun(p) ==
    /\ p \in DOMAIN fs
    /\ fs[p].fmt = "webp"
    /\ fs[p].opts \in { save_options(DefaultQuality, TRUE), save_options(DefaultQuality, FALSE) }

(***************************************************************************)
(* Properties                                                              *)
(***************************************************************************)
\* C1, as stated: without --remove-original no source is ever removed; with
\* it, at the end of the batch a source is removed if and only if its
\* conversion succeeded.
C1_DeletionIff ==
    \A p \in Sources :
        /\ ~remove_original => p \in DOMAIN fs
        /\ (remove_original /\ pc = "exit") => (Removed(p) <=> Succeeded(p))

\* C1, amended: without --remove-original no source is ever removed or
\* changed; with it, a source is removed only if its conversion succeeded,
\* and at the end of the batch every source whose conversion succeeded is
\* removed unless the attempt to delete it failed and was reported.
C1_DeletionOnlyOnSuccess ==
    \A p \in Sources :
        /\ ~remove_original => (p \in DOMAIN fs /\ fs[p] = fs0[p])
        /\ Removed(p) => (remove_original /\ Succeeded(p))
        /\ (remove_original /\ pc = "exit" /\ Succeeded(p)
              /\ ~Printed(<<"delete_failed", p>>)) => Removed(p)

C1_Witness ==
    /\ pc = "exit"
    /\ remove_original
    /\ \E p, q \in Sources :
          /\ Removed(p)
          /\ Succeeded(q) /\ Printed(<<"delete_failed", q>>) /\ q \in DOMAIN fs

\* C2: no failure while processing one eligible file aborts the batch: every
\* eligible file is attempted exactly once, the summary is reached and the
\* process exits with status 0.
C2_FailureIsolation ==
    (pc = "exit" /\ dir_kind = "dir" /\ Sources # {}) =>
        /\ exit_status = 0
        /\ SummaryPrinted
        /\ \A p \in Sources : Attempts(p) = 1

\* C3: a file named *.webp (any letter case) is never passed to
\* convert_to_webp, is counted neither as succeeded nor as failed, and is
\* reported as skipped by a batch that reaches its summary.
C3_SkipInvariant ==
    \A p \in WebpEntries :
        /\ Attempts(p) = 0
        /\ SummaryPrinted => Printed(<<"skip", p>>)

\* C4: when the summary is printed, total_original_size is the sum of the
\* original sizes of all eligible files whatever their outcome,
\* total_new_size is the sum of the encoded sizes of the files whose
\* conversion succeeded, the ratio printed is 1 - total_new_size /
\* total_original_size (to a tenth of a percent), and no ratio is printed
\* when total_original_size is 0.
C4_AggregateRatio ==
    SummaryPrinted =>
        /\ total_original_size = SumOver(Sources, "size")
        /\ total_new_size = SumOver({ p \in Sources : Succeeded(p) }, "enc")
        /\ total_original_size = 0 => ~TotalsPrinted
        /\ total_original_size > 0 =>
              \E i \in DOMAIN out :
                  /\ out[i][1] = "totals"
                  /\ out[i][2] = total_original_size
                  /\ out[i][3] = total_new_size
                  /\ LET d == 1000 * (total_original_size - total_new_size)
                                 - out[i][4] * total_original_size
                     IN  2 * d <= total_original_size /\ 2 * d > - total_original_size

C4_Witness ==
    /\ TotalsPrinted
    /\ total_new_size > 0
    /\ \E p, q \in Sources : Succeeded(p) /\ Failed(q) /\ fs0[q].size > 0

\* C5: a missing directory ends main with status 1 before any scan, with no
\* file read, written or deleted; and it is the only batch-level failure: a
\* run on a path that exists does not end with a non-zero status.
C5_OnlyMissingDirectoryIsFatal ==
    pc = "exit" =>
        /\ dir_kind = "missing" =>
              (exit_status = 1 /\ fs = fs0 /\ out = << <<"no_dir", directory>> >>)
        /\ dir_kind # "missing" => exit_status = 0

\* C6: with no eligible file in the directory, batch_convert reports that no
\* supported file was found, never calls the converter, writes and deletes
\* nothing, ends with succeeded = failed = 0, and the process exits with 0.
C6_NoEligibleFiles ==
    (dir_kind = "dir" /\ Sources = {}) =>
        /\ fs = fs0
        /\ \A p \in DOMAIN fs0 : Attempts(p) = 0
        /\ success_count = 0
        /\ pc = "exit" =>
              (exit_status = 0 /\ Printed(<<"none_found">>) /\ ~SummaryPrinted)

C6_Witness ==
    /\ pc = "exit"
    /\ dir_kind = "dir"
    /\ Sources = {}
    /\ WebpEntries # {}
    /\ Printed(<<"none_found">>)

\* C7: the only files created or modified are <basename>.webp beside an
\* eligible source, the only files deleted are eligible sources and only
\* with --remove-original; every other entry is left as it was.
C7_FilesystemFrame ==
    \A p \in DOMAIN fs0 \cup DOMAIN fs :
        /\ (p \in DOMAIN fs /\ (p \notin DOMAIN fs0 \/ fs[p] # fs0[p]))
              => \E s \in Sources : p = BesideWebp(s)
        /\ Removed(p) => (p \in Sources /\ remove_original)

C7_Witness ==
    /\ pc = "exit"
    /\ \E s \in Sources, p \in DOMAIN fs0 \ Sources :
          /\ Removed(s)
          /\ WrittenByRun(BesideWebp(s))
          /\ p # BesideWebp(s)
          /\ fs[p] = fs0[p]

\* C8: every file a conversion writes holds RGBA when the decoded mode of
\* its source carries an alpha channel and RGB when it does not.
C8_ModeNormalization ==
    \A p \in DOMAIN fs :
        WrittenByRun(p) =>
            fs[p].mode = IF HasAlpha(fs0[fs[p].px].mode) THEN "RGBA" ELSE "RGB"

\* C9: a deletion that fails is reported and leaves the conversion counted:
\* the file is in success_count, its encoded size is in total_new_size, no
\* exception of os.remove leaves the loop, and the loop goes on to the next
\* file.
C9_DeletionFailureKeepsSuccess ==
    /\ ~Printed(<<"traceback", "remove">>)
    /\ \A p \in Sources :
          Printed(<<"delete_failed", p>>) =>
              /\ Succeeded(p)
              /\ p \in DOMAIN fs
              /\ remove_original
    /\ pc \in {"loop", "exit"} /\ dir_kind = "dir" /\ ~Printed(<<"none_found">>) =>
          /\ success_count = Cardinality({ p \in Sources : Succeeded(p) })
          /\ total_new_size = SumOver({ p \in Sources : Succeeded(p) }, "enc")
          /\ pc = "loop" => idx = 1 + Cardinality({ p \in Sources : Attempts(p) > 0 })

C9_Witness ==
    /\ pc = "exit"
    /\ exit_status = 0
    /\ \E i, j \in DOMAIN out :
          /\ i < j
          /\ out[i][1] = "delete_failed"
          /\ out[j][1] \in {"ok", "fail"}
          /\ out[j][2] # out[i][2]

\* C10: at the end of the batch every removed source still has its output
\* file on disk, holding the encoding of that source's own pixels, also when
\* several sources share a base name.
C10_NoSourceLost ==
    pc = "exit" =>
        \A s \in Sources :
            Removed(s) =>
                /\ WrittenByRun(BesideWebp(s))
                /\ fs[BesideWebp(s)].px = s

====
